---- MODULE Spec2Model ----
(***************************************************************************)
(* A model of conda_env_to_app.py (class MacAppBuilder and main) together  *)
(* with the settings file settings.py.                                     *)
(*                                                                         *)
(* Strings are sequences of symbols (a symbol stands for one or more       *)
(* characters that the model never splits), so that Python's substring     *)
(* test, str.replace, os.path.join and os.path.basename are computed on    *)
(* the text and not assumed.  The filesystem is one function from          *)
(* absolute paths (sequences of names, a name being a string) to nodes.    *)
(***************************************************************************)
EXTENDS Integers, Sequences, FiniteSets, TLC

VARIABLES
    args,           \* argparse result of main: [build, dmg, clear]
    config,         \* MacAppBuilder.config: setting name -> value
    fs,             \* the filesystem: path -> node
    fs0,            \* the filesystem in the initial state (history)
    pc,             \* position of the process in main / create_app / create_dmg
    trace,          \* the stage methods create_app has called, in call order
    log,            \* logger records emitted so far
    create_result,  \* what create_app returned: "none", "True" or "False"
    codesign_runs,  \* outcomes of the invocations of the codesign utility
    fr_result,      \* what each find_and_replace call returned
    dmg,            \* create_dmg's locals: size, temp settings file, build outcome
    settings,       \* the settings file: whether readable, and its top-level bindings
    fr_in           \* arguments of a direct find_and_replace call (SpecFR)

vars == <<args, config, fs, fs0, pc, trace, log, create_result,
          codesign_runs, fr_result, dmg, settings, fr_in>>

-----------------------------------------------------------------------------
(* Strings *)

Sep == "/"

\* Python's `sub in s`
Contains(s, sub) ==
    \E i \in 0..(Len(s) - Len(sub)) : SubSeq(s, i + 1, i + Len(sub)) = sub

RECURSIVE Interleave(_, _)
\* what str.replace does for an empty search string: "ab" -> r a r b r
Interleave(s, r) ==
    IF s = <<>> THEN r ELSE r \o <<Head(s)>> \o Interleave(Tail(s), r)

RECURSIVE ReplaceFrom(_, _, _)
ReplaceFrom(s, search, replace) ==
    IF Len(s) < Len(search) THEN s
    ELSE IF SubSeq(s, 1, Len(search)) = search
         THEN replace \o ReplaceFrom(SubSeq(s, Len(search) + 1, Len(s)), search, replace)
         ELSE <<Head(s)>> \o ReplaceFrom(Tail(s), search, replace)

RECURSIVE ReplaceFirstOnly(_, _, _)
\* a replace that stops after the first occurrence (str.replace(a, b, 1))
ReplaceFirstOnly(s, search, replace) ==
    IF search = <<>> THEN replace \o s
    ELSE IF Len(s) < Len(search) THEN s
    ELSE IF SubSeq(s, 1, Len(search)) = search
         THEN replace \o SubSeq(s, Len(search) + 1, Len(s))
         ELSE <<Head(s)>> \o ReplaceFirstOnly(Tail(s), search, replace)

\* str.replace(search, replace): every non-overlapping occurrence, left to right
Replace(s, search, replace) ==
    IF search = <<>> THEN Interleave(s, replace)
    ELSE ReplaceFrom(s, search, replace)

\* os.path.join(a, b) for a relative b
Join(a, b) == a \o <<Sep>> \o b

RECURSIVE Components(_)
\* the names of a path string, split at the separators
Components(s) ==
    IF s = <<>> THEN <<>>
    ELSE LET cut  == IF \E i \in 1..Len(s) : s[i] = Sep
                     THEN CHOOSE i \in 1..Len(s) :
                              s[i] = Sep /\ \A j \in 1..(i - 1) : s[j] # Sep
                     ELSE Len(s) + 1
             name == SubSeq(s, 1, cut - 1)
             rest == SubSeq(s, cut + 1, Len(s))
         IN  (IF name = <<>> THEN <<>> ELSE <<name>>) \o Components(rest)

\* os.path.basename
Basename(s) ==
    LET seps == {i \in 1..Len(s) : s[i] = Sep}
        last == IF seps = {} THEN 0 ELSE CHOOSE i \in seps : \A j \in seps : j <= i
    IN  SubSeq(s, last + 1, Len(s))

RECURSIVE PathStr(_)
\* the path string of a sequence of names
PathStr(p) == IF p = <<>> THEN <<>> ELSE <<Sep>> \o Head(p) \o PathStr(Tail(p))

-----------------------------------------------------------------------------
(* The filesystem *)

DirNode == [kind |-> "dir", text |-> FALSE, mode |-> "rw", content |-> <<>>]

\* a symbolic link to an existing directory
LinkDirNode == [kind |-> "linkdir", text |-> FALSE, mode |-> "rw", content |-> <<>>]

TextFile(c) == [kind |-> "file", text |-> TRUE, mode |-> "rw", content |-> c]

\* a text file whose permissions forbid writing
ReadOnlyText(c) == [kind |-> "file", text |-> TRUE, mode |-> "ro", content |-> c]

BinFile(c) == [kind |-> "file", text |-> FALSE, mode |-> "rw", content |-> c]

IsPathPrefix(p, q) == Len(p) <= Len(q) /\ SubSeq(q, 1, Len(p)) = p

Exists(f, p) == p \in DOMAIN f

\* Path.is_dir / os.path.isdir: follows symbolic links
IsDir(f, p) == Exists(f, p) /\ f[p].kind \in {"dir", "linkdir"}

\* p and everything below it
Under(f, p) == {q \in DOMAIN f : IsPathPrefix(p, q)}

\* strictly below p
Below(f, p) == Under(f, p) \ {p}

Parent(p) == SubSeq(p, 1, Len(p) - 1)

Restrict(f, S) == [q \in S |-> f[q]]

Put(f, p, node) == [q \in DOMAIN f \cup {p} |-> IF q = p THEN node ELSE f[q]]

Remove(f, p) == Restrict(f, DOMAIN f \ {p})

\* shutil.rmtree(p)
RmTree(f, p) == Restrict(f, DOMAIN f \ Under(f, p))

\* os.makedirs(p, exist_ok=True)
MakeDirs(f, p) ==
    [q \in DOMAIN f \cup {SubSeq(p, 1, i) : i \in 0..Len(p)} |->
        IF q \in DOMAIN f THEN f[q] ELSE DirNode]

\* shutil.copytree(src, dst, symlinks=True, dirs_exist_ok=True)
CopyTree(f, src, dst) ==
    LET rels == {SubSeq(q, Len(src) + 1, Len(q)) : q \in Under(f, src)}
        g    == MakeDirs(f, dst)
    IN  [q \in DOMAIN g \cup {dst \o r : r \in rels} |->
            IF IsPathPrefix(dst, q) /\ SubSeq(q, Len(dst) + 1, Len(q)) \in rels
            THEN LET s == f[src \o SubSeq(q, Len(dst) + 1, Len(q))]
                 IN  IF s.kind = "dir" /\ q \in DOMAIN g THEN g[q] ELSE s
            ELSE g[q]]

-----------------------------------------------------------------------------
(* find_and_replace *)

\* a walk that tests the exclusions on the file's own path, name included
WalkedFilesFullPath(f, path, exclusions) ==
    {q \in Below(f, path) :
        /\ f[q].kind = "file"
        /\ ~ \E i \in 1..Len(exclusions) : Contains(PathStr(q), exclusions[i])}

\* the files os.walk(path) hands to the loop body: every regular file below
\* path whose directory string (root) contains no exclusion substring
WalkedFiles(f, path, exclusions) ==
    {q \in Below(f, path) :
        /\ f[q].kind = "file"
        /\ ~ \E i \in 1..Len(exclusions) :
                 Contains(PathStr(Parent(q)), exclusions[i])}

\* the files the loop body rewrites
RewrittenFiles(f, path, search, exclusions) ==
    {q \in WalkedFiles(f, path, exclusions) :
        f[q].text /\ Contains(f[q].content, search) /\ f[q].mode # "ro"}

\* the files on which the loop body raised (open(..., 'w') on a read-only file)
FailedFiles(f, path, search, exclusions) ==
    {q \in WalkedFiles(f, path, exclusions) :
        f[q].text /\ Contains(f[q].content, search) /\ f[q].mode = "ro"}

\* find_and_replace(path, search, replace, exclusions): the filesystem it
\* leaves and the pair it returns
FindAndReplace(f, path, search, replace, exclusions) ==
    LET rw == RewrittenFiles(f, path, search, exclusions)
    IN  [fs |-> [q \in DOMAIN f |->
                    IF q \in rw
                    THEN [f[q] EXCEPT !.content = Replace(@, search, replace)]
                    ELSE f[q]],
         processed_files |-> Cardinality(rw),
         failed_files |-> FailedFiles(f, path, search, exclusions)]

-----------------------------------------------------------------------------
(* cleanup_bundle *)

RECURSIVE FnMatch(_, _)
\* fnmatch of one name against one pattern component ("*" is the wildcard)
FnMatch(name, pat) ==
    IF pat = <<>> THEN name = <<>>
    ELSE IF Head(pat) = "*"
         THEN \E k \in 0..Len(name) :
                  FnMatch(SubSeq(name, k + 1, Len(name)), Tail(pat))
         ELSE name # <<>> /\ Head(name) = Head(pat) /\ FnMatch(Tail(name), Tail(pat))

\* Path(root).rglob(pattern): the paths below root whose last names match the
\* pattern's components; a pattern ending in a separator yields directories only
RGlob(f, root, pattern) ==
    LET parts   == Components(pattern)
        k       == Len(parts)
        dironly == pattern # <<>> /\ pattern[Len(pattern)] = Sep
    IN  {q \in Below(f, root) :
            /\ k >= 1
            /\ Len(q) - Len(root) >= k
            /\ \A i \in 1..k : FnMatch(q[Len(q) - k + i], parts[i])
            /\ dironly => IsDir(f, q)}

\* the matches whose removal raises: is_dir() is true of a symbolic link to
\* a directory, and shutil.rmtree refuses a symbolic link
RemovalFails(f, q) == f[q].kind = "linkdir"

\* one pattern of the loop: every match is removed (a directory with all
\* below it) unless its removal raised, which is caught and logged
CleanPattern(f, root, pattern) ==
    LET matches == RGlob(f, root, pattern)
        failed  == {q \in matches : RemovalFails(f, q)}
        gone    == UNION {Under(f, q) : q \in matches \ failed}
    IN  [fs |-> Restrict(f, DOMAIN f \ gone), failed |-> failed]

RECURSIVE CleanPatterns(_, _, _)
CleanPatterns(f, root, patterns) ==
    IF patterns = <<>> THEN [fs |-> f, failed |-> {}]
    ELSE LET one  == CleanPattern(f, root, Head(patterns))
             rest == CleanPatterns(one.fs, root, Tail(patterns))
         IN  [fs |-> rest.fs, failed |-> one.failed \cup rest.failed]

default_exclusions ==
    << <<"*", ".pyc">>, <<"__pycache__">>, <<".DS_Store">>,
       <<"include", Sep>>, <<"share", Sep, "doc", Sep>>,
       <<"share", Sep, "man", Sep>>, <<"conda-meta", Sep>>, <<"pkgs", Sep>> >>

-----------------------------------------------------------------------------
(* The settings file and the world the process starts in *)

required_vars ==
    <<"APP_NAME", "OUTPUT_FOLDER", "VERSION", "AUTHOR",
      "CONDA_ENV_PATH", "ENTRY_SCRIPT", "IDENTIFIER">>

RequiredKeys == {required_vars[i] : i \in 1..Len(required_vars)}

\* optional settings a settings file may or may not bind
OptionalKeys == {"ICON_PATH", "CODE_SIGN", "CONDA_FOLDERS", "CONDA_EXCLUDE_FILES"}

\* bindings settings.py always makes besides the required ones
AlwaysKeys == {"RESOURCE_DIR", "extra"}

\* the value settings.py binds to a name (code_sign: the value of CODE_SIGN)
SettingValue(k, code_sign) ==
    CASE k = "APP_NAME" -> <<"OpenSesame">>
      [] k = "OUTPUT_FOLDER" -> <<Sep, "out">>
      [] k = "VERSION" -> <<"4.1.0">>
      [] k = "AUTHOR" -> <<"author">>
      [] k = "CONDA_ENV_PATH" -> <<Sep, "env">>
      [] k = "ENTRY_SCRIPT" -> <<"opensesame">>
      [] k = "IDENTIFIER" -> <<"nl.cogsci.osdoc">>
      [] k = "ICON_PATH" -> <<Sep, "res", Sep, "opensesame", ".icns">>
      [] k = "CODE_SIGN" -> code_sign
      [] k = "CONDA_FOLDERS" -> << <<"bin">>, <<"lib">>, <<"ssl">> >>
      [] k = "CONDA_EXCLUDE_FILES" ->
            << <<"bin", Sep, "*", ".app">>, <<"conda-meta">>, <<"include">>,
               <<"lib", Sep, "pkg-config">> >>
      [] k = "RESOURCE_DIR" -> <<>>
      [] k = "extra" -> <<"function">>

Bindings(keys, code_sign) == [k \in keys |-> SettingValue(k, code_sign)]

SettingsFiles ==
    {[readable |-> FALSE, bindings |-> Bindings({}, FALSE)]}
    \cup {[readable |-> TRUE,
           bindings |-> Bindings(AlwaysKeys \cup (RequiredKeys \ missing), FALSE)] :
             missing \in (SUBSET RequiredKeys) \ {{}}}
    \cup {[readable |-> TRUE,
           bindings |-> Bindings(AlwaysKeys \cup RequiredKeys \cup opt, cs)] :
             opt \in SUBSET OptionalKeys, cs \in BOOLEAN}

EnvText == <<"#!", Sep, "env", Sep, "bin", Sep, "python">>

\* the conda environment at /env
EnvTree ==
    LET e(p) == <<<<"env">>>> \o p
    IN  (e(<<>>) :> DirNode)
     @@ (e(<<<<"bin">>>>) :> DirNode)
     @@ (e(<<<<"bin">>, <<"opensesame">>>>) :> TextFile(EnvText))
     @@ (e(<<<<"bin">>, <<"tool", ".app">>>>) :> DirNode)
     @@ (e(<<<<"bin">>, <<"tool", ".app">>, <<"x">>>>) :> BinFile(<<"x">>))
     @@ (e(<<<<"lib">>>>) :> DirNode)
     @@ (e(<<<<"lib">>, <<"m", ".pyc">>>>) :> BinFile(<<"m">>))
     @@ (e(<<<<"lib">>, <<"conf">>>>) :> ReadOnlyText(EnvText))
     @@ (e(<<<<"lib">>, <<"pkg-config">>>>) :> LinkDirNode)
     @@ (e(<<<<"include">>>>) :> DirNode)
     @@ (e(<<<<"include">>, <<"a", ".h">>>>) :> TextFile(<<"a">>))
     @@ (e(<<<<"share">>>>) :> DirNode)
     @@ (e(<<<<"share">>, <<"doc">>>>) :> DirNode)
     @@ (e(<<<<"share">>, <<"doc">>, <<"r", ".txt">>>>) :> TextFile(EnvText))

AppRoot == <<<<"out">>, <<"OpenSesame", ".app">>>>

\* what may be at the bundle's path when the process starts
PreBundles ==
    LET a(p) == AppRoot \o p
        none    == <<>>
        stale   == (a(<<>>) :> DirNode)
                @@ (a(<<<<"Contents">>>>) :> DirNode)
                @@ (a(<<<<"Contents">>, <<"Info", ".plist">>>>) :> BinFile(<<"old">>))
                @@ (a(<<<<"Contents">>, <<"MacOS">>>>) :> DirNode)
                @@ (a(<<<<"Contents">>, <<"MacOS">>, <<"OpenSesame">>>>) :> TextFile(<<"old">>))
                @@ (a(<<<<"Contents">>, <<"Resources">>>>) :> DirNode)
                @@ (a(<<<<"Contents">>, <<"Resources">>, <<"old">>>>) :> DirNode)
                @@ (a(<<<<"Contents">>, <<"Resources">>, <<"old">>, <<"stale">>>>) :> TextFile(<<"old">>))
                @@ (<<<<"out">>, <<"OpenSesame", ".dmg">>>> :> BinFile(<<"old">>))
        partial == (a(<<>>) :> DirNode)
                @@ (a(<<<<"Contents">>>>) :> DirNode)
                @@ (a(<<<<"Contents">>, <<"Resources">>>>) :> DirNode)
                @@ (a(<<<<"Contents">>, <<"Resources">>, <<"lib">>>>) :> DirNode)
                @@ (a(<<<<"Contents">>, <<"Resources">>, <<"lib">>, <<"gone", ".py">>>>) :> TextFile(EnvText))
    IN  {none, stale, partial}

\* the filesystem at process start
World(pre, env_exists, icon_exists) ==
    (<<>> :> DirNode)
    @@ (<<<<"out">>>> :> DirNode)
    @@ (<<<<"tmp">>>> :> DirNode)
    @@ (<<<<"res">>>> :> DirNode)
    @@ (IF icon_exists
        THEN (<<<<"res">>, <<"opensesame", ".icns">>>> :> BinFile(<<"icns">>))
        ELSE <<>>)
    @@ (IF env_exists THEN EnvTree ELSE <<>>)
    @@ pre

NoDmg == [state |-> "none", bytes |-> 0, size |-> 0, temp |-> <<>>]

Init ==
    /\ args \in [build : BOOLEAN, dmg : BOOLEAN, clear : BOOLEAN]
    /\ settings \in SettingsFiles
    /\ \E pre \in PreBundles, env_exists \in BOOLEAN, icon_exists \in BOOLEAN :
           fs = World(pre, env_exists, icon_exists)
    /\ fs0 = fs
    /\ config = <<>>
    /\ pc = "start"
    /\ trace = <<>>
    /\ log = <<>>
    /\ create_result = "none"
    /\ codesign_runs = <<>>
    /\ fr_result = <<>>
    /\ dmg = NoDmg
    /\ fr_in = <<>>

LogRec(level, msg, detail) == [level |-> level, msg |-> msg, detail |-> detail]

-----------------------------------------------------------------------------
(* MacAppBuilder.__init__: load_config and validate_config *)

\* the required settings the configuration lacks, in required_vars order
MissingReportsFirstOnly(cfg) ==
    LET all == SelectSeq(required_vars, LAMBDA v : v \notin DOMAIN cfg)
    IN  IF all = <<>> THEN <<>> ELSE <<all[1]>>

MissingVars(cfg) == SelectSeq(required_vars, LAMBDA v : v \notin DOMAIN cfg)

\* the paths validate_config derives (self.app_file, ...), as strings
app_file == Join(config["OUTPUT_FOLDER"], config["APP_NAME"] \o <<".app">>)

macos_dir == Join(app_file, <<"Contents", Sep, "MacOS">>)

resource_dir == Join(app_file, <<"Contents", Sep, "Resources">>)

app_script == Join(macos_dir, config["APP_NAME"])

\* main's MacAppBuilder(args.config)
StartBuilder ==
    /\ pc = "start"
    /\ IF ~settings.readable
       THEN /\ config' = config
            /\ log' = Append(log, LogRec("error", "Could not read app config file", <<>>))
            /\ pc' = "exit"
       ELSE /\ config' = settings.bindings
            /\ LET missing == MissingVars(config')
               IN  IF missing # <<>>
                   THEN /\ log' = Append(log, LogRec("error",
                                   "Missing required configuration variables", missing))
                        /\ pc' = "exit"
                   ELSE IF ~Exists(fs, Components(config'["CONDA_ENV_PATH"]))
                   THEN /\ log' = Append(log, LogRec("error",
                                   "Conda environment not found", <<>>))
                        /\ pc' = "exit"
                   ELSE /\ log' = log
                        /\ pc' = "main_build"
    /\ UNCHANGED <<args, fs, fs0, trace, create_result, codesign_runs,
                   fr_result, dmg, settings, fr_in>>

-----------------------------------------------------------------------------
(* create_app *)

\* the calls of create_app, in the order it makes them
StageOrderSignBeforeCleanup ==
    <<"create_app_structure", "copy_conda_env", "copy_icon", "create_plist",
      "create_launcher_script", "fix_paths", "code_sign", "cleanup_bundle">>

StageOrder ==
    <<"create_app_structure", "copy_conda_env", "copy_icon", "create_plist",
      "create_launcher_script", "fix_paths", "cleanup_bundle", "code_sign">>

\* where control goes when a stage method returns
AfterStage(stage) ==
    LET i == CHOOSE j \in 1..Len(StageOrder) : StageOrder[j] = stage
    IN  IF i = Len(StageOrder) THEN "create_app_return" ELSE StageOrder[i + 1]

\* the early-return test with the switch read the wrong way round
SkipsWhenClear(exists, clear) == exists /\ clear

\* create_app returns early, building nothing

SkipExisting(exists, clear) == exists /\ ~clear

\* the removal of the previous bundle
RemovePreviousKeepsResources(f, app) ==
    Restrict(f, (DOMAIN f \ Under(f, app))
                \cup Under(f, app \o <<<<"Contents">>, <<"Resources">>>>)
                \cup {q \in Under(f, app) : Len(q) <= Len(app) + 1})

RemovePrevious(f, app) == RmTree(f, app)

\* main's `if args.build:` taken, and create_app up to its first stage call
create_app ==
    /\ pc = "main_build"
    /\ args.build
    /\ LET app    == Components(app_file)
           exists == Exists(fs, app)
       IN  IF SkipExisting(exists, args.clear)
           THEN /\ log' = Append(log, LogRec("info", "Skipping app creation", <<>>))
                /\ create_result' = "False"
                /\ pc' = "main_dmg"
                /\ fs' = fs
           ELSE /\ fs' = IF exists THEN RemovePrevious(fs, app) ELSE fs
                /\ log' = IF exists
                          THEN Append(log, LogRec("info", "Removing previous app", <<>>))
                          ELSE log
                /\ create_result' = create_result
                /\ pc' = StageOrder[1]
    /\ UNCHANGED <<args, config, fs0, trace, codesign_runs, fr_result, dmg,
                   settings, fr_in>>

\* main's `if args.build:` not taken
skip_build ==
    /\ pc = "main_build"
    /\ ~args.build
    /\ pc' = "main_dmg"
    /\ UNCHANGED <<args, config, fs, fs0, trace, log, create_result,
                   codesign_runs, fr_result, dmg, settings, fr_in>>

CreateAppStructureFs(f) ==
    MakeDirs(MakeDirs(f, Components(macos_dir)), Components(resource_dir))

create_app_structure ==
    /\ pc = "create_app_structure"
    /\ trace' = Append(trace, "create_app_structure")
    /\ fs' = CreateAppStructureFs(fs)
    /\ pc' = AfterStage("create_app_structure")
    /\ UNCHANGED <<args, config, fs0, log, create_result, codesign_runs,
                   fr_result, dmg, settings, fr_in>>

RECURSIVE CopyFolders(_, _)
\* the CONDA_FOLDERS loop: folders absent from the environment are skipped
CopyFolders(f, folders) ==
    IF folders = <<>> THEN f
    ELSE LET src == Components(Join(config["CONDA_ENV_PATH"], Head(folders)))
             dst == Components(Join(resource_dir, Head(folders)))
         IN  CopyFolders(IF Exists(f, src) THEN CopyTree(f, src, dst) ELSE f,
                         Tail(folders))

CopyCondaEnvFs(f) ==
    IF "CONDA_FOLDERS" \in DOMAIN config
    THEN CopyFolders(f, config["CONDA_FOLDERS"])
    ELSE CopyTree(f, Components(config["CONDA_ENV_PATH"]), Components(resource_dir))

copy_conda_env ==
    /\ pc = "copy_conda_env"
    /\ trace' = Append(trace, "copy_conda_env")
    /\ fs' = CopyCondaEnvFs(fs)
    /\ pc' = AfterStage("copy_conda_env")
    /\ UNCHANGED <<args, config, fs0, log, create_result, codesign_runs,
                   fr_result, dmg, settings, fr_in>>

\* whether copy_icon copies anything
IconCopied(f) ==
    "ICON_PATH" \in DOMAIN config /\ Exists(f, Components(config["ICON_PATH"]))

CopyIconFs(f) ==
    IF IconCopied(f)
    THEN Put(f, Components(Join(resource_dir, Basename(config["ICON_PATH"]))),
             f[Components(config["ICON_PATH"])])
    ELSE f

copy_icon ==
    /\ pc = "copy_icon"
    /\ trace' = Append(trace, "copy_icon")
    /\ fs' = CopyIconFs(fs)
    /\ log' = IF "ICON_PATH" \in DOMAIN config /\ ~IconCopied(fs)
              THEN Append(log, LogRec("warning", "Icon file not found", <<>>))
              ELSE log
    /\ pc' = AfterStage("copy_icon")
    /\ UNCHANGED <<args, config, fs0, create_result, codesign_runs,
                   fr_result, dmg, settings, fr_in>>

\* the dictionary create_plist serialises (the entries the settings decide)
info_plist ==
    <<"CFBundleExecutable">> \o config["APP_NAME"]
    \o <<"CFBundleIdentifier">> \o config["IDENTIFIER"]
    \o <<"CFBundleName">> \o config["APP_NAME"]
    \o <<"CFBundleShortVersionString">> \o config["VERSION"]
    \o <<"NSHumanReadableCopyright">> \o config["AUTHOR"]
    \o (IF "ICON_PATH" \in DOMAIN config
        THEN <<"CFBundleIconFile">> \o Basename(config["ICON_PATH"])
        ELSE <<>>)

plist_path == Join(Join(app_file, <<"Contents">>), <<"Info", ".plist">>)

CreatePlistFs(f) == Put(f, Components(plist_path), BinFile(info_plist))

create_plist ==
    /\ pc = "create_plist"
    /\ trace' = Append(trace, "create_plist")
    /\ fs' = CreatePlistFs(fs)
    /\ pc' = AfterStage("create_plist")
    /\ UNCHANGED <<args, config, fs0, log, create_result, codesign_runs,
                   fr_result, dmg, settings, fr_in>>

launcher_content ==
    <<"#!/usr/bin/env bash", "export PYTHONHOME", "exec",
      "$RESOURCES_DIR", Sep, "bin", Sep, "python",
      "$RESOURCES_DIR", Sep, "bin", Sep>> \o config["ENTRY_SCRIPT"]

\* the script is written, then chmod 0o755
CreateLauncherFs(f) ==
    Put(f, Components(app_script),
        [kind |-> "file", text |-> TRUE, mode |-> "rwx", content |-> launcher_content])

create_launcher_script ==
    /\ pc = "create_launcher_script"
    /\ trace' = Append(trace, "create_launcher_script")
    /\ fs' = CreateLauncherFs(fs)
    /\ pc' = AfterStage("create_launcher_script")
    /\ UNCHANGED <<args, config, fs0, log, create_result, codesign_runs,
                   fr_result, dmg, settings, fr_in>>

app_path ==
    <<Sep, "Applications", Sep>> \o config["APP_NAME"]
    \o <<".app", Sep, "Contents", Sep, "Resources">>

fix_paths_exclusions ==
    << <<"site-packages">>, <<"doc">>, <<"Resources", Sep, "lib", Sep, "python">> >>

FixPaths(f) ==
    FindAndReplace(f, Components(resource_dir), config["CONDA_ENV_PATH"],
                   app_path, fix_paths_exclusions)

fix_paths ==
    /\ pc = "fix_paths"
    /\ trace' = Append(trace, "fix_paths")
    /\ LET r == FixPaths(fs)
       IN  /\ fs' = r.fs
           /\ fr_result' = Append(fr_result,
                  [processed_files |-> r.processed_files,
                   failed_files |-> r.failed_files])
           /\ log' = IF r.failed_files = {} THEN log
                     ELSE Append(log, LogRec("warning", "Unable to process", r.failed_files))
    /\ pc' = AfterStage("fix_paths")
    /\ UNCHANGED <<args, config, fs0, create_result, codesign_runs,
                   dmg, settings, fr_in>>

\* the list without the caller's patterns
cleanup_exclusions_defaults_only == default_exclusions

cleanup_exclusions ==
    (IF "CONDA_EXCLUDE_FILES" \in DOMAIN config
     THEN config["CONDA_EXCLUDE_FILES"] ELSE <<>>) \o default_exclusions

CleanupBundle(f) == CleanPatterns(f, Components(resource_dir), cleanup_exclusions)

cleanup_bundle ==
    /\ pc = "cleanup_bundle"
    /\ trace' = Append(trace, "cleanup_bundle")
    /\ LET r == CleanupBundle(fs)
       IN  /\ fs' = r.fs
           /\ log' = IF r.failed = {} THEN log
                     ELSE Append(log, LogRec("warning", "Could not remove", r.failed))
    /\ pc' = AfterStage("cleanup_bundle")
    /\ UNCHANGED <<args, config, fs0, create_result, codesign_runs,
                   fr_result, dmg, settings, fr_in>>

\* config.get('CODE_SIGN', False)
CodeSignEnabled == "CODE_SIGN" \in DOMAIN config /\ config["CODE_SIGN"]

\* what a successful codesign run leaves in the bundle
SignedFs(f) ==
    Put(MakeDirs(f, Components(app_file) \o <<<<"Contents">>, <<"_CodeSignature">>>>),
        Components(app_file) \o <<<<"Contents">>, <<"_CodeSignature">>, <<"CodeResources">>>>,
        BinFile(<<"seal">>))

\* how a run of the codesign utility can end: exit status 0, a non-zero exit
\* status (CalledProcessError), or no such executable (FileNotFoundError)
CodesignOutcomes == {"ok", "nonzero", "unavailable"}

code_sign ==
    /\ pc = "code_sign"
    /\ trace' = Append(trace, "code_sign")
    /\ IF ~CodeSignEnabled
       THEN /\ pc' = AfterStage("code_sign")
            /\ UNCHANGED <<fs, log, codesign_runs>>
       ELSE \E outcome \in CodesignOutcomes :
            /\ codesign_runs' = Append(codesign_runs, outcome)
            /\ fs' = IF outcome = "ok" THEN SignedFs(fs) ELSE fs
            /\ log' = CASE outcome = "ok" ->
                             Append(log, LogRec("info", "Code signing successful", <<>>))
                        [] outcome = "nonzero" ->
                             Append(log, LogRec("warning", "Code signing failed", <<>>))
                        [] OTHER -> log
            \* only CalledProcessError is caught
            /\ pc' = IF outcome = "unavailable" THEN "raised"
                     ELSE AfterStage("code_sign")
    /\ UNCHANGED <<args, config, fs0, create_result, fr_result, dmg,
                   settings, fr_in>>

\* create_app's `return True` and main's log line
create_app_return ==
    /\ pc = "create_app_return"
    /\ create_result' = "True"
    /\ log' = Append(log, LogRec("info", "App bundle created successfully!", <<>>))
    /\ pc' = "main_dmg"
    /\ UNCHANGED <<args, config, fs, fs0, trace, codesign_runs, fr_result,
                   dmg, settings, fr_in>>

-----------------------------------------------------------------------------
(* create_dmg *)

MiB == 1048576

\* the slack factor 1.3 as a fraction
SlackNum == 13

SlackDen == 10

\* int(app_size_bytes * 1.3 / 1024 / 1024): int() truncates
DmgSizeMB(bytes) == (bytes * SlackNum) \div (SlackDen * MiB)

\* total sizes a non-empty bundle is tried with
SizeSamples == {1, 806597, 8065969, 10485760}

\* config.get('DMG_FILE', APP_NAME + '.dmg') joined to the output folder
dmg_path == Join(config["OUTPUT_FOLDER"], config["APP_NAME"] \o <<".dmg">>)

\* the name tempfile.NamedTemporaryFile(suffix='.py', delete=False) picks
temp_settings == <<<<"tmp">>, <<"tmpsettings", ".py">>>>

dmg_config(size) ==
    <<"filename">> \o dmg_path \o <<"volume_name">> \o config["APP_NAME"]
    \o <<"size", ToString(size), "M">> \o <<"files">> \o app_file

\* main's `if args.dmg:` taken, and create_dmg up to the end of the `with`
\* block that writes the temporary settings file
create_dmg_settings ==
    /\ pc = "main_dmg"
    /\ args.dmg
    /\ LET old   == Components(dmg_path)
           fs1   == IF args.clear /\ Exists(fs, old) THEN Remove(fs, old) ELSE fs
           sizes == IF Below(fs, Components(app_file)) = {} THEN {0} ELSE SizeSamples
       IN  \E bytes \in sizes, written \in BOOLEAN :
            LET size == DmgSizeMB(bytes)
            IN  IF written
                THEN /\ fs' = Put(fs1, temp_settings, TextFile(dmg_config(size)))
                     /\ dmg' = [state |-> "written", bytes |-> bytes,
                                size |-> size, temp |-> temp_settings]
                     /\ pc' = "dmg_build"
                \* f.write raised: the file was created with delete=False and
                \* the try/finally that unlinks it has not been entered
                ELSE /\ fs' = Put(fs1, temp_settings, TextFile(<<>>))
                     /\ dmg' = [state |-> "write_failed", bytes |-> bytes,
                                size |-> size, temp |-> temp_settings]
                     /\ pc' = "raised"
    /\ UNCHANGED <<args, config, fs0, trace, log, create_result,
                   codesign_runs, fr_result, settings, fr_in>>

\* the try/finally around dmgbuild.build_dmg, and main's last log line
create_dmg_build ==
    /\ pc = "dmg_build"
    /\ \E built \in (IF Exists(fs, Components(app_file)) THEN BOOLEAN ELSE {FALSE}) :
        IF built
        THEN /\ fs' = Put(Remove(fs, dmg.temp), Components(dmg_path), BinFile(<<"dmg">>))
             /\ dmg' = [dmg EXCEPT !.state = "built"]
             /\ log' = Append(log, LogRec("info", "DMG created", <<>>))
             /\ pc' = "done"
        ELSE /\ fs' = Remove(fs, dmg.temp)
             /\ dmg' = [dmg EXCEPT !.state = "build_failed"]
             /\ log' = log
             /\ pc' = "raised"
    /\ UNCHANGED <<args, config, fs0, trace, create_result, codesign_runs,
                   fr_result, settings, fr_in>>

\* main's `if args.dmg:` not taken
main_finish ==
    /\ pc = "main_dmg"
    /\ ~args.dmg
    /\ pc' = "done"
    /\ UNCHANGED <<args, config, fs, fs0, trace, log, create_result,
                   codesign_runs, fr_result, dmg, settings, fr_in>>

-----------------------------------------------------------------------------
(* main *)

Next ==
    \/ StartBuilder
    \/ create_app
    \/ skip_build
    \/ create_app_structure
    \/ copy_conda_env
    \/ copy_icon
    \/ create_plist
    \/ create_launcher_script
    \/ fix_paths
    \/ cleanup_bundle
    \/ code_sign
    \/ create_app_return
    \/ create_dmg_settings
    \/ create_dmg_build
    \/ main_finish

Spec == Init /\ [][Next]_vars

-----------------------------------------------------------------------------
(* find_and_replace called directly, again and again on the same tree *)

\* longest search and replacement string tried
MaxPat == 2

\* longest file content tried
MaxContent == 3

\* number of calls made on the tree
FRCalls == 2

FRAlphabet == {"a", "b"}

FRStrings(n) == UNION {[1..k -> FRAlphabet] : k \in 0..n}

\* a tree with one file of any content (writable or not), a second text
\* file, a binary file, a text file in a directory the exclusions name, and
\* a text file whose own name holds an exclusion substring
FRTree(c, mode) ==
    (<<>> :> DirNode)
    @@ (<<<<"w">>>> :> DirNode)
    @@ (<<<<"w">>, <<"f">>>> :>
          [kind |-> "file", text |-> TRUE, mode |-> mode, content |-> c])
    @@ (<<<<"w">>, <<"b">>>> :> BinFile(<<"a", "b", "a">>))
    @@ (<<<<"w">>, <<"sub">>>> :> DirNode)
    @@ (<<<<"w">>, <<"sub">>, <<"h">>>> :> TextFile(<<"b", "a", "a", "b">>))
    @@ (<<<<"w">>, <<"doc">>>> :> DirNode)
    @@ (<<<<"w">>, <<"doc">>, <<"g">>>> :> TextFile(<<"a", "b">>))
    @@ (<<<<"w">>, <<"doc", ".txt">>>> :> TextFile(<<"a", "b", "a">>))

InitFR ==
    /\ args = [build |-> FALSE, dmg |-> FALSE, clear |-> FALSE]
    /\ settings = [readable |-> FALSE, bindings |-> Bindings({}, FALSE)]
    /\ config = <<>>
    /\ \E c \in FRStrings(MaxContent), mode \in {"rw", "ro"} : fs = FRTree(c, mode)
    /\ fs0 = fs
    /\ \E search \in FRStrings(MaxPat), replace \in FRStrings(MaxPat) :
           fr_in = [path |-> <<<<"w">>>>, search |-> search, replace |-> replace,
                    exclusions |-> << <<"doc">> >>]
    /\ pc = "find_and_replace"
    /\ trace = <<>>
    /\ log = <<>>
    /\ create_result = "none"
    /\ codesign_runs = <<>>
    /\ fr_result = <<>>
    /\ dmg = NoDmg

find_and_replace ==
    /\ pc = "find_and_replace"
    /\ Len(fr_result) < FRCalls
    /\ LET r == FindAndReplace(fs, fr_in.path, fr_in.search, fr_in.replace,
                               fr_in.exclusions)
       IN  /\ fs' = r.fs
           /\ fr_result' = Append(fr_result,
                  [processed_files |-> r.processed_files,
                   failed_files |-> r.failed_files])
           /\ log' = IF r.failed_files = {} THEN log
                     ELSE Append(log, LogRec("warning", "Unable to process", r.failed_files))
    /\ UNCHANGED <<args, config, fs0, pc, trace, create_result, codesign_runs,
                   dmg, settings, fr_in>>

NextFR == find_and_replace

SpecFR == InitFR /\ [][NextFR]_vars

-----------------------------------------------------------------------------
(* cleanup_bundle on bundles of many shapes *)

\* entries a resource directory may hold: <<option, path below the resource
\* directory, node>>; the entries of option 0 are always there
CleanupEntries ==
    { <<0, <<<<"bin">>>>, DirNode>>,
      <<0, <<<<"bin">>, <<"opensesame">>>>, TextFile(<<"#!">>)>>,
      <<0, <<<<"lib">>>>, DirNode>>,
      <<0, <<<<"lib">>, <<"python">>>>, DirNode>>,
      <<0, <<<<"lib">>, <<"python">>, <<"site", ".py">>>>, TextFile(<<"site">>)>>,
      <<0, <<<<"share">>>>, DirNode>>,
      <<1, <<<<"lib">>, <<"m", ".pyc">>>>, BinFile(<<"m">>)>>,
      <<2, <<<<"lib">>, <<"__pycache__">>>>, DirNode>>,
      <<2, <<<<"lib">>, <<"__pycache__">>, <<"c", ".pyc">>>>, BinFile(<<"c">>)>>,
      <<3, <<<<"lib">>, <<"pkg-config">>>>, LinkDirNode>>,
      <<4, <<<<"include">>>>, DirNode>>,
      <<4, <<<<"include">>, <<"a", ".h">>>>, TextFile(<<"a">>)>>,
      <<5, <<<<"share">>, <<"doc">>>>, DirNode>>,
      <<5, <<<<"share">>, <<"doc">>, <<"r", ".txt">>>>, TextFile(<<"r">>)>>,
      <<6, <<<<"share">>, <<"man">>>>, LinkDirNode>>,
      <<7, <<<<"lib">>, <<"x", ".pyc">>>>, DirNode>>,
      <<7, <<<<"lib">>, <<"x", ".pyc">>, <<"keep", ".txt">>>>, TextFile(<<"k">>)>>,
      <<8, <<<<"conda-meta">>>>, DirNode>>,
      <<8, <<<<"conda-meta">>, <<"h", ".json">>>>, TextFile(<<"h">>)>>,
      <<9, <<<<"lib">>, <<"python">>, <<"include">>>>, TextFile(<<"i">>)>> }

CleanupOptions == {e[1] : e \in CleanupEntries} \ {0}

\* the resource tree with the optional entries chosen, placed at root
ResourceTree(root, chosen) ==
    LET es == {e \in CleanupEntries : e[1] \in chosen \cup {0}}
    IN  [q \in {root \o e[2] : e \in es} |->
            (CHOOSE e \in es : root \o e[2] = q)[3]]

\* values of CONDA_EXCLUDE_FILES tried besides leaving it out
UserPatternLists ==
    { SettingValue("CONDA_EXCLUDE_FILES", FALSE),
      << <<"lib", Sep, "*">> >>,
      << <<"*", ".txt">>, <<"include">>, <<"share", Sep, "man">> >> }

InitCleanup ==
    /\ args = [build |-> TRUE, dmg |-> FALSE, clear |-> TRUE]
    /\ \E cs \in BOOLEAN :
           settings = [readable |-> TRUE,
                       bindings |-> Bindings(AlwaysKeys \cup RequiredKeys
                                             \cup {"CODE_SIGN"}, cs)]
    /\ \/ config = settings.bindings
       \/ \E user \in UserPatternLists :
              config = settings.bindings @@ ("CONDA_EXCLUDE_FILES" :> user)
    /\ \E root \in {Components(resource_dir)} :
       \E skeleton \in {CreateLauncherFs(CreatePlistFs(CreateAppStructureFs(
                            World(<<>>, TRUE, FALSE))))} :
       \E chosen \in SUBSET CleanupOptions :
           fs = ResourceTree(root, chosen) @@ skeleton
    /\ fs0 = fs
    /\ pc = "cleanup_bundle"
    /\ trace = <<"create_app_structure", "copy_conda_env", "copy_icon",
                 "create_plist", "create_launcher_script", "fix_paths">>
    /\ log = <<>>
    /\ create_result = "none"
    /\ codesign_runs = <<>>
    /\ fr_result = <<[processed_files |-> 0, failed_files |-> {}]>>
    /\ dmg = NoDmg
    /\ fr_in = <<>>

NextCleanup == cleanup_bundle

SpecCleanup == InitCleanup /\ [][NextCleanup]_vars

-----------------------------------------------------------------------------
(* Properties of the whole program (specification Spec) *)

Range(seq) == {seq[i] : i \in 1..Len(seq)}

\* the subtree at the bundle's path
Bundle(f) == Restrict(f, Under(f, Components(app_file)))

\* validate_config has accepted the configuration
Validated == pc \notin {"start", "exit"}

\* the keys the settings file lacks among the seven the builder requires
C1_Missing ==
    {"APP_NAME", "OUTPUT_FOLDER", "VERSION", "AUTHOR", "CONDA_ENV_PATH",
     "ENTRY_SCRIPT", "IDENTIFIER"} \ DOMAIN settings.bindings

C1_EnvMissing ==
    /\ "CONDA_ENV_PATH" \in DOMAIN settings.bindings
    /\ ~Exists(fs0, Components(settings.bindings["CONDA_ENV_PATH"]))

\* C1: once the builder has been constructed from a readable settings file
\* that lacks required keys, or whose CONDA_ENV_PATH does not exist, the
\* process has exited with status 1, no stage of create_app and nothing of
\* create_dmg has run, the filesystem is as it was, and when keys are missing
\* the one error logged lists exactly the missing keys.
C1_InvalidConfigExits ==
    (settings.readable /\ pc # "start" /\ (C1_Missing # {} \/ C1_EnvMissing)) =>
        /\ pc = "exit"
        /\ trace = <<>>
        /\ create_result = "none"
        /\ codesign_runs = <<>>
        /\ fr_result = <<>>
        /\ dmg = NoDmg
        /\ fs = fs0
        /\ Len(log) = 1
        /\ log[1].level = "error"
        /\ C1_Missing # {} =>
             /\ log[1].msg = "Missing required configuration variables"
             /\ Range(log[1].detail) = C1_Missing
             /\ Len(log[1].detail) = Cardinality(C1_Missing)

\* two keys are missing, a bundle of an earlier run exists, and the process
\* has exited
C1_Witness ==
    /\ pc = "exit"
    /\ settings.readable
    /\ Cardinality(C1_Missing) >= 2
    /\ Exists(fs0, AppRoot)
    /\ args.build /\ args.dmg

\* what the eight stages leave when they start from the world without any
\* bundle (sign: whether a codesign run succeeded)
FromScratch(sign) ==
    LET f0 == RmTree(fs0, Components(app_file))
        f1 == CreateAppStructureFs(f0)
        f2 == CopyCondaEnvFs(f1)
        f3 == CopyIconFs(f2)
        f4 == CreatePlistFs(f3)
        f5 == CreateLauncherFs(f4)
        f6 == FixPaths(f5).fs
        f7 == CleanupBundle(f6).fs
    IN  IF sign THEN SignedFs(f7) ELSE f7

\* C2: when create_app(clear=True) has returned True over a bundle that
\* existed before, the bundle's set of paths is the set a build from scratch
\* produces, so no path that only the old bundle had survives.
C2_ClearRebuildsFromScratch ==
    (Validated /\ create_result = "True" /\ args.clear
       /\ Exists(fs0, Components(app_file))) =>
        LET scratch == FromScratch(codesign_runs = <<"ok">>)
        IN  /\ DOMAIN Bundle(fs) = DOMAIN Bundle(scratch)
            /\ \A q \in DOMAIN Bundle(fs0) :
                   q \notin DOMAIN Bundle(scratch) => q \notin DOMAIN fs

\* a rebuild over the stale bundle has returned, and its stale file is gone
C2_Witness ==
    /\ Validated
    /\ create_result = "True"
    /\ args.clear
    /\ Exists(fs0, AppRoot \o <<<<"Contents">>, <<"Resources">>, <<"old">>, <<"stale">>>>)
    /\ ~Exists(fs, AppRoot \o <<<<"Contents">>, <<"Resources">>, <<"old">>, <<"stale">>>>)

\* C3: when the bundle path exists and create_app is called with clear
\* disabled, it returns False, no stage runs, and when it returns the
\* filesystem is what it was; the bundle stays as it was from then on.
C3_SkipLeavesFilesystem ==
    (Validated /\ pc # "main_build" /\ args.build /\ ~args.clear
       /\ Exists(fs0, Components(app_file))) =>
        /\ create_result = "False"
        /\ trace = <<>>
        /\ codesign_runs = <<>>
        /\ fr_result = <<>>
        /\ pc = "main_dmg" => fs = fs0
        /\ Bundle(fs) = Bundle(fs0)
        /\ \E i \in 1..Len(log) : log[i].msg = "Skipping app creation"

\* create_app has just returned False over the partial bundle
C3_Witness ==
    /\ pc = "main_dmg"
    /\ create_result = "False"
    /\ args.build /\ ~args.clear
    /\ Exists(fs0, AppRoot \o <<<<"Contents">>, <<"Resources">>, <<"lib">>, <<"gone", ".py">>>>)
    /\ fs = fs0

\* ceil(bytes * 1.3 / 1048576)
C6_Ceil(bytes) == (bytes * 13 + 10 * 1048576 - 1) \div (10 * 1048576)

\* C6: the size create_dmg hands to the image builder is
\* ceil(total_bundle_bytes * 1.3 / 1,048,576) megabytes, hence at least 1.3
\* times the bundle and not 0 for a non-empty bundle.
C6_SizeIsCeiling ==
    dmg.state # "none" =>
        /\ dmg.size = C6_Ceil(dmg.bytes)
        /\ dmg.size * 10 * 1048576 >= dmg.bytes * 13
        /\ dmg.bytes > 0 => dmg.size > 0

\* C7: on every exit from create_dmg after the temporary settings file was
\* created (normal return, failed image build, failed write of the
\* settings) the temporary settings file no longer exists.
C7_TempSettingsRemoved ==
    (dmg.state # "none" /\ pc \in {"done", "raised"}) => ~Exists(fs, dmg.temp)

\* create_dmg has returned normally and the temporary settings file is gone
C7_Witness ==
    /\ pc = "done"
    /\ dmg.state = "built"
    /\ ~Exists(fs, dmg.temp)

\* C8: once create_app has started building, no per-item error (a file
\* find_and_replace cannot rewrite, a path cleanup cannot delete, a failed
\* codesign invocation) aborts it: it never ends in an uncaught exception.
C8_PerItemErrorsDoNotAbort ==
    ~(pc = "raised" /\ trace # <<>> /\ create_result = "none")

\* a build in which path fixing failed on a file, cleanup could not delete a
\* path and codesign exited non-zero has returned True
C8_Witness ==
    /\ create_result = "True"
    /\ Len(fr_result) = 1 /\ fr_result[1].failed_files # {}
    /\ \E i \in 1..Len(log) : log[i].msg = "Could not remove"
    /\ codesign_runs = <<"nonzero">>

\* C9: in every completed build the settings' extra hook has run exactly
\* once, after cleanup_bundle, with RESOURCE_DIR set to the bundle's
\* resource directory.
C9_ExtraHookRuns ==
    (Validated /\ create_result = "True") =>
        /\ Cardinality({i \in 1..Len(trace) : trace[i] = "extra"}) = 1
        /\ \E i, j \in 1..Len(trace) :
               i < j /\ trace[i] = "cleanup_bundle" /\ trace[j] = "extra"
        /\ config["RESOURCE_DIR"] = resource_dir

\* a build has completed
C9_Witness ==
    /\ create_result = "True"
    /\ "extra" \in DOMAIN config
    /\ "cleanup_bundle" \in Range(trace)

C10_Order ==
    <<"create_app_structure", "copy_conda_env", "copy_icon", "create_plist",
      "create_launcher_script", "fix_paths", "cleanup_bundle", "code_sign">>

C10_State ==
    /\ Len(trace) <= Len(C10_Order)
    /\ trace = SubSeq(C10_Order, 1, Len(trace))
    /\ create_result = "True" => trace = C10_Order
    /\ codesign_runs # <<>> =>
           /\ Validated
           /\ "CODE_SIGN" \in DOMAIN config /\ config["CODE_SIGN"]
           /\ Len(codesign_runs) = 1
           /\ trace = C10_Order

C10_Step ==
    /\ Len(trace') <= Len(trace) + 1
    /\ (Validated /\ "code_sign" \in Range(trace)) => Bundle(fs') = Bundle(fs)

\* C10: the stages run in the order structure, copy, icon, metadata,
\* launcher, path rewrite, cleanup, signer, one at a time; the codesign
\* utility is invoked only when CODE_SIGN is enabled (and then in the signer
\* stage, once); after the signer has run no step changes the bundle.
C10_StagesInOrder == [](C10_State) /\ [][C10_Step]_vars

\* a build with signing enabled has run all eight stages and codesign
\* succeeded
C10_Witness ==
    /\ create_result = "True"
    /\ trace = C10_Order
    /\ codesign_runs = <<"ok">>
    /\ pc = "done"

\* f holds a bundle with the parts every completed pipeline leaves: the
\* launcher, the descriptor and the resource directory
C12_Complete(f) ==
    /\ Exists(f, Components(app_file))
    /\ Exists(f, Components(app_script))
    /\ Exists(f, Components(plist_path))
    /\ Exists(f, Components(resource_dir))

\* C12: whatever the flags and the prior state of the output folder,
\* whenever create_dmg has computed the size and called the image-building
\* utility (whether it built the image or failed) the bundle at app_file exists
\* and is the result of a completed create_app pipeline (of this run, or of
\* an earlier one whose bundle this run left alone); and with neither build
\* nor dmg requested nothing beyond loading and validation is done.
C12_DmgOnlyOnFinishedBundle ==
    /\ dmg.state \in {"built", "build_failed"} =>
           /\ Exists(fs, Components(app_file))
           /\ \/ create_result = "True"
              \/ C12_Complete(fs0) /\ Bundle(fs) = Bundle(fs0)
    /\ (pc = "done" /\ ~args.build /\ ~args.dmg) =>
           fs = fs0 /\ trace = <<>> /\ dmg = NoDmg /\ codesign_runs = <<>>

\* a disk image was built from the bundle this run's pipeline completed
C12_Witness ==
    /\ dmg.state = "built"
    /\ create_result = "True"
    /\ args.build /\ args.dmg

\* the descriptor of the bundle names an icon file
C13_PlistNamesIcon ==
    /\ Exists(fs, Components(plist_path))
    /\ Contains(fs[Components(plist_path)].content, <<"CFBundleIconFile">>)

\* the file the descriptor names is in the bundle's resource directory
C13_IconInResources ==
    Exists(fs, Components(Join(resource_dir, Basename(config["ICON_PATH"]))))

\* C13: in every bundle create_app has produced, the descriptor names an
\* icon file (CFBundleIconFile) only if a file of that name is in the
\* bundle's resource directory at the end of the build.
C13_IconNamedOnlyIfPresent ==
    (Validated /\ create_result = "True" /\ C13_PlistNamesIcon) =>
        "ICON_PATH" \in DOMAIN config /\ C13_IconInResources

\* a build completed whose descriptor names the icon that copy_icon copied
C13_Witness ==
    /\ Validated
    /\ create_result = "True"
    /\ C13_PlistNamesIcon
    /\ "ICON_PATH" \in DOMAIN config
    /\ C13_IconInResources
    /\ Exists(fs0, Components(config["ICON_PATH"]))

-----------------------------------------------------------------------------
(* Properties of find_and_replace (specification SpecFR) *)

\* the text files a call reads
C4_Scanned ==
    {q \in WalkedFiles(fs, fr_in.path, fr_in.exclusions) : fs[q].text}

\* neither string is empty or contains the other, and no end of one is the
\* other end of the other
C4_NoOverlap(search, replace) ==
    /\ search # <<>>
    /\ replace # <<>>
    /\ ~Contains(replace, search)
    /\ ~Contains(search, replace)
    /\ \A k \in 1..Len(search) :
           /\ ~(k <= Len(replace)
                /\ SubSeq(replace, 1, k) = SubSeq(search, Len(search) - k + 1, Len(search)))
           /\ ~(k <= Len(replace)
                /\ SubSeq(replace, Len(replace) - k + 1, Len(replace)) = SubSeq(search, 1, k))

C4_Covered ==
    /\ Len(fr_result) >= 1
    /\ fr_result[1].failed_files = {}
    /\ C4_NoOverlap(fr_in.search, fr_in.replace)

C4_State ==
    C4_Covered =>
        /\ \A q \in C4_Scanned : ~Contains(fs[q].content, fr_in.search)
        /\ \A i \in 2..Len(fr_result) :
               fr_result[i].processed_files = 0 /\ fr_result[i].failed_files = {}

C4_Step == (C4_Covered /\ Len(fr_result') > Len(fr_result)) => fs' = fs

\* C4 (amended): when the search and replacement strings are non-empty and
\* overlap nowhere and the first run failed on no file, then after the first
\* run no scanned text file contains the search string, and every later run
\* with the same arguments rewrites no file (count 0) and changes nothing.
C4_IdempotentWhenNoOverlap == [](C4_State) /\ [][C4_Step]_vars

\* two runs were made with non-overlapping strings, the first rewrote files
\* (among them the file whose content varies), the second none
C4_Witness ==
    /\ Len(fr_result) = 2
    /\ C4_Covered
    /\ fr_result[1].processed_files >= 2
    /\ fs[<<<<"w">>, <<"f">>>>] # fs0[<<<<"w">>, <<"f">>>>]
    /\ Len(fr_in.search) = 2

\* C4: after one run of find_and_replace a second run with the same
\* arguments finds no occurrence of the search string and changes no file
\* (its changed-file count is 0), whatever the strings and the tree; stated
\* here for the runs with a non-empty search string whose first run failed
\* on no file.
C4_Idempotent ==
    (Len(fr_result) >= 2 /\ fr_in.search # <<>> /\ fr_result[1].failed_files = {}) =>
        /\ fr_result[2].processed_files = 0
        /\ \A q \in C4_Scanned : ~Contains(fs[q].content, fr_in.search)

\* the full path of q, file name included, holds an exclusion substring
C11_PathExcluded(q) ==
    \E i \in 1..Len(fr_in.exclusions) : Contains(PathStr(q), fr_in.exclusions[i])

\* the path of the directory holding q holds an exclusion substring
C11_DirExcluded(q) ==
    \E i \in 1..Len(fr_in.exclusions) :
        Contains(PathStr(SubSeq(q, 1, Len(q) - 1)), fr_in.exclusions[i])

\* the text files of f under the root that contain the search string
C11_Candidates(f) ==
    {q \in DOMAIN f :
        /\ Len(q) > Len(fr_in.path)
        /\ SubSeq(q, 1, Len(fr_in.path)) = fr_in.path
        /\ f[q].kind = "file"
        /\ f[q].text
        /\ Contains(f[q].content, fr_in.search)}

RECURSIVE C11_Replaced(_, _, _, _)
\* new is old with occurrences of search replaced so that no occurrence is
\* left inside a piece that was kept: old = s0 search s1 ... search sn and
\* new = s0 replace s1 ... replace sn with search in no si (search non-empty)
C11_Replaced(old, new, search, replace) ==
    \/ old = new /\ ~Contains(old, search)
    \/ \E k \in 0..(Len(old) - Len(search)) :
           /\ ~Contains(SubSeq(old, 1, k), search)
           /\ SubSeq(old, k + 1, k + Len(search)) = search
           /\ Len(new) >= k + Len(replace)
           /\ SubSeq(new, 1, k) = SubSeq(old, 1, k)
           /\ SubSeq(new, k + 1, k + Len(replace)) = replace
           /\ C11_Replaced(SubSeq(old, k + Len(search) + 1, Len(old)),
                           SubSeq(new, k + Len(replace) + 1, Len(new)),
                           search, replace)

\* every occurrence of search in old is replaced in new; the empty string
\* occurs before every symbol and at the end
C11_EveryOccurrenceReplaced(old, new, search, replace) ==
    IF search # <<>> THEN C11_Replaced(old, new, search, replace)
    ELSE LET L == Len(replace)
         IN  /\ Len(new) = Len(old) + (Len(old) + 1) * L
             /\ \A i \in 0..Len(old) :
                    SubSeq(new, i * (L + 1) + 1, i * (L + 1) + L) = replace
             /\ \A i \in 1..Len(old) : new[i * (L + 1)] = old[i]

\* one call took the tree from f to g, returned count and failed, and
\* rewrote exactly the files of S
C11_RewroteExactly(f, g, S, count) ==
    /\ DOMAIN g = DOMAIN f
    /\ \A q \in S :
           /\ g[q] = [f[q] EXCEPT !.content = g[q].content]
           /\ C11_EveryOccurrenceReplaced(f[q].content, g[q].content,
                                          fr_in.search, fr_in.replace)
    /\ \A q \in DOMAIN f \ S : g[q] = f[q]
    /\ count = Cardinality(S)

C11_Step ==
    Len(fr_result') > Len(fr_result) =>
        LET r == fr_result'[Len(fr_result')]
        IN  /\ r.failed_files \subseteq
                   {q \in C11_Candidates(fs) : ~C11_DirExcluded(q)}
            /\ C11_RewroteExactly(fs, fs',
                   {q \in C11_Candidates(fs) :
                       ~C11_DirExcluded(q) /\ q \notin r.failed_files},
                   r.processed_files)

\* C11 (amended): each call of find_and_replace rewrites exactly the text
\* files under the root that contain the search string, lie in a directory
\* whose path holds no exclusion substring (the file's own name is not
\* tested) and whose rewrite did not fail; in each of them every occurrence
\* of the search string is replaced, every other path is left as it was, the
\* returned count is the number of files rewritten, and the files reported
\* as failed are text files containing the string in non-excluded directories.
C11_RewritesExactly == [][C11_Step]_vars

\* one call rewrote the file named doc.txt and the file of varying content,
\* and left alone the binary file and the file in directory doc, which both
\* contain the search string
C11_Witness ==
    /\ Len(fr_result) = 1
    /\ fr_result[1].failed_files = {}
    /\ Len(fr_in.search) = 2
    /\ fr_in.replace # fr_in.search
    /\ fs[<<<<"w">>, <<"doc", ".txt">>>>] # fs0[<<<<"w">>, <<"doc", ".txt">>>>]
    /\ fs[<<<<"w">>, <<"f">>>>] # fs0[<<<<"w">>, <<"f">>>>]
    /\ Contains(fs0[<<<<"w">>, <<"b">>>>].content, fr_in.search)
    /\ fs[<<<<"w">>, <<"b">>>>] = fs0[<<<<"w">>, <<"b">>>>]
    /\ Contains(fs0[<<<<"w">>, <<"doc">>, <<"g">>>>].content, fr_in.search)
    /\ fs[<<<<"w">>, <<"doc">>, <<"g">>>>] = fs0[<<<<"w">>, <<"doc">>, <<"g">>>>]

\* C11: find_and_replace rewrites exactly the files under the root that are
\* textual, contain the search string and whose path contains none of the
\* exclusion substrings; in each every occurrence is replaced, every other
\* file is left unchanged, and the returned count is the number of files
\* rewritten; stated here for the first call when it failed on no file.
C11_RewritesExactlyNonExcludedPaths ==
    (Len(fr_result) = 1 /\ fr_result[1].failed_files = {}) =>
        C11_RewroteExactly(fs0, fs,
            {q \in C11_Candidates(fs0) : ~C11_PathExcluded(q)},
            fr_result[1].processed_files)

-----------------------------------------------------------------------------
(* Properties of cleanup_bundle (specification SpecCleanup) *)

\* the caller's patterns and the built-in ones
C5_Patterns ==
    (IF "CONDA_EXCLUDE_FILES" \in DOMAIN config
     THEN Range(config["CONDA_EXCLUDE_FILES"]) ELSE {})
    \cup Range(default_exclusions)

\* the paths that matched some pattern before the cleanup
C5_Matched ==
    UNION {RGlob(fs0, Components(resource_dir), p) : p \in C5_Patterns}

\* the paths whose removal was logged as failed
C5_LoggedFailures ==
    UNION {log[i].detail : i \in {j \in 1..Len(log) : log[j].msg = "Could not remove"}}

\* q is one of the paths in matched or lies inside one
C5_InsideMatch(q, matched) == \E i \in 0..Len(q) : SubSeq(q, 1, i) \in matched

====
